---- MODULE Spec2Model ----
(***************************************************************************)
(* Asynchronous job callback coordination of jonesleonard/upscaler:        *)
(*   src/lambdas/submit_runpod_job/index.py      (Job Submission)          *)
(*   src/lambdas/runpod_webhook_handler/index.py (Webhook Ingestion)       *)
(* The correlation store (DynamoDB table), the workflow engine (Step       *)
(* Functions), Secrets Manager and the RunPod endpoint are the environment:*)
(* each call to them is one atomic step whose outcome is chosen            *)
(* nondeterministically among the outcomes the handlers distinguish.       *)
(*                                                                         *)
(* Python dicts and DynamoDB items are functions whose DOMAIN is the set   *)
(* of keys present.  Texts the code takes apart or builds (the webhook     *)
(* status, error codes, error messages) are sequences of characters.       *)
(***************************************************************************)
EXTENDS Integers, Sequences, FiniteSets, TLC

VARIABLES
    store,      \* DynamoDB table: callback_token -> item
    engine,     \* Step Functions: task token -> "open" | "succeeded" | "failed" | "timedout"
    cache,      \* _runpod_api_key_cache of the one submit process
    sub,        \* submit invocations (lambda_handler of submit_runpod_job)
    wh          \* webhook invocations (handler of runpod_webhook_handler)

vars == <<store, engine, cache, sub, wh>>

(***************************** bounds ***************************************)
MaxSubmits == 2
MaxDeliveries == 2
MaxTime == 2
UnitsPerSecond == 2

Submits == 1..MaxSubmits
Deliveries == 1..MaxDeliveries
\* readings of datetime.now(timezone.utc), in units of 1/UnitsPerSecond s
Times == 1..MaxTime

(***************************** values ***************************************)
\* Python's None where a string is expected
None == "None"
\* {} and "no item"
EmptyDict == [k \in {} |-> ""]
\* record.get("completed_at") of an item without the attribute
NoTime == 0

Get(dict, key, default) == IF key \in DOMAIN dict THEN dict[key] ELSE default

Truthy(s) == s # None /\ s # ""

\* what the environment hands out: the task token of the s-th parked task, the
\* job id RunPod returns for the s-th POST, the hex tokens secrets can draw
TaskTokenNames == <<"task1", "task2", "task3", "task4">>
JobIdNames == <<"job1", "job2", "job3", "job4">>
HexTokenNames == <<"cb1", "cb2", "cb3", "cb4">>

TaskTokens == {TaskTokenNames[s] : s \in Submits}
CallbackTokens == {HexTokenNames[s] : s \in Submits}

\* texts the code takes apart or builds, as sequences of characters
sCOMPLETED == <<"C","O","M","P","L","E","T","E","D">>
sFAILED == <<"F","A","I","L","E","D">>
sCANCELLED == <<"C","A","N","C","E","L","L","E","D">>
sTIMED_OUT == <<"T","I","M","E","D","_","O","U","T">>
sIN_PROGRESS == <<"I","N","_","P","R","O","G","R","E","S","S">>
sUNKNOWN == <<"U","N","K","N","O","W","N">>
sRunPod == <<"R","u","n","P","o","d">>
sRunPodJob == <<"R","u","n","P","o","d"," ","j","o","b"," ">>
sGpuOom == <<"G","P","U"," ","O","O","M">>

\* str.replace(old, "") for a one-character old
RECURSIVE Remove(_, _)
Remove(text, ch) ==
    IF text = <<>> THEN <<>>
    ELSE IF Head(text) = ch THEN Remove(Tail(text), ch)
    ELSE <<Head(text)>> \o Remove(Tail(text), ch)

(***************************** correlation store ****************************)
\* table.get_item(Key=...).get("Item")
get_item(tok) == IF tok \in DOMAIN store THEN store[tok] ELSE EmptyDict

\* a variant that leaves the table with the one item put
put_itemAlone(item) == [t \in {item.callback_token} |-> item]

\* table.put_item(Item=item): creates or replaces the item under its key
put_item(item) ==
    [t \in DOMAIN store \cup {item.callback_token} |->
        IF t = item.callback_token THEN item ELSE store[t]]

\* a variant that replaces the item under the key by the attributes set
update_itemReplacing(tok, attrs) ==
    [t \in DOMAIN store \cup {tok} |->
        IF t = tok THEN attrs @@ [callback_token |-> tok] ELSE store[t]]

\* table.update_item(Key=..., UpdateExpression="SET ..."): no ConditionExpression,
\* so the attributes are set on the item under the key, which is created when absent
update_item(tok, attrs) ==
    [t \in DOMAIN store \cup {tok} |->
        IF t = tok THEN attrs @@ get_item(tok) @@ [callback_token |-> tok]
        ELSE store[t]]

(***************************** webhook handler ******************************)
\* a variant that takes only COMPLETED for processed
IsTerminalOnlyCompleted(record) == Get(record, "status", None) = "COMPLETED"

IsTerminal(record) == Get(record, "status", None) \in {"COMPLETED", "FAILED"}

FailureStatuses == {sFAILED, sCANCELLED, sTIMED_OUT}

\* a variant that fails the workflow on every status other than COMPLETED
ResumeOpElseFailure(status) ==
    IF status = sCOMPLETED THEN "send_task_success" ELSE "send_task_failure"

\* which resume operation the handler calls for a webhook status
ResumeOp(status) ==
    IF status = sCOMPLETED THEN "send_task_success"
    ELSE IF status \in FailureStatuses THEN "send_task_failure"
    ELSE "none"

\* a variant that never reads the body's id
job_id_ofUnknown(body) == "unknown"
\* a variant that keeps the underscores of the status
error_codeKeepingUnderscores(body) == sRunPod \o Get(body, "status", sUNKNOWN)

job_id_of(body) == Get(body, "id", "unknown")
status_of(body) == Get(body, "status", sUNKNOWN)
error_message(body) == Get(body, "error", sRunPodJob \o status_of(body))
error_code(body) == sRunPod \o Remove(status_of(body), "_")

\* a variant that reports every recognized status to the engine as success
ResumeCallAlwaysSuccess(tok, body, record) ==
    [op |-> "send_task_success",
     taskToken |-> record.task_token,
     output |-> [job_id |-> job_id_of(body),
                 status |-> status_of(body),
                 callback_token |-> tok,
                 exec_id |-> Get(record, "exec_id", None),
                 segment_filename |-> Get(record, "segment_filename", None),
                 output |-> Get(body, "output", EmptyDict)]]

\* a variant that passes the callback token as taskToken
ResumeCallWithCallbackToken(tok, body, record) ==
    IF ResumeOp(status_of(body)) = "send_task_success"
    THEN [op |-> "send_task_success",
          taskToken |-> tok,
          output |-> [job_id |-> job_id_of(body),
                      status |-> status_of(body),
                      callback_token |-> tok,
                      exec_id |-> Get(record, "exec_id", None),
                      segment_filename |-> Get(record, "segment_filename", None),
                      output |-> Get(body, "output", EmptyDict)]]
    ELSE [op |-> "send_task_failure",
          taskToken |-> tok,
          error |-> error_code(body),
          cause |-> error_message(body)]

\* the resume call of a webhook `body` for `record` under `tok`
ResumeCall(tok, body, record) ==
    IF ResumeOp(status_of(body)) = "send_task_success"
    THEN [op |-> "send_task_success",
          taskToken |-> record.task_token,
          output |-> [job_id |-> job_id_of(body),
                      status |-> status_of(body),
                      callback_token |-> tok,
                      exec_id |-> Get(record, "exec_id", None),
                      segment_filename |-> Get(record, "segment_filename", None),
                      output |-> Get(body, "output", EmptyDict)]]
    ELSE [op |-> "send_task_failure",
          taskToken |-> record.task_token,
          error |-> error_code(body),
          cause |-> error_message(body)]

\* a variant that marks the record FAILED whenever the resume call was rejected,
\* and also when a success resume was accepted
UpdateStatusFailedOnSuccess(op, outcome) ==
    IF outcome = "TaskTimedOut" /\ op = "send_task_success" THEN "COMPLETED" ELSE "FAILED"

\* the arguments of update_callback_completed after the resume call ended `outcome`
UpdateStatus(op, outcome) ==
    IF outcome = "ok" THEN (IF op = "send_task_success" THEN "COMPLETED" ELSE "FAILED")
    ELSE IF outcome = "TaskTimedOut"
         THEN (IF op = "send_task_success" THEN "COMPLETED" ELSE "FAILED")
    ELSE "FAILED"

UpdateResult(op, outcome, body) ==
    IF outcome = "ok"
    THEN IF op = "send_task_success"
         THEN [job_id |-> job_id_of(body), runpod_status |-> status_of(body),
               output |-> Get(body, "output", EmptyDict)]
         ELSE [job_id |-> job_id_of(body), runpod_status |-> status_of(body),
               error |-> error_message(body)]
    ELSE IF outcome = "TaskTimedOut"
         THEN [error |-> <<"Task token expired">>, job_id |-> job_id_of(body)]
    ELSE [error |-> <<"Invalid task token">>, job_id |-> job_id_of(body)]

\* update_callback_completed(callback_token, status, result) at time `now`
update_callback_completed(tok, status, result, now) ==
    update_item(tok,
        IF result # EmptyDict
        THEN [status |-> status, completed_at |-> now, result |-> result]
        ELSE [status |-> status, completed_at |-> now])

Response(code, body) == [statusCode |-> code, body |-> body]

\* a variant that acknowledges a rejected resume like an accepted one
FinalResponseAlways200(outcome, body) ==
    Response(200, [message |-> "Webhook processed successfully",
                   job_id |-> job_id_of(body), status |-> status_of(body)])

\* the response after the store update, by the outcome of the resume call
FinalResponse(outcome, body) ==
    IF outcome = "ok"
    THEN Response(200, [message |-> "Webhook processed successfully",
                        job_id |-> job_id_of(body), status |-> status_of(body)])
    ELSE IF outcome = "TaskTimedOut"
         THEN Response(410, [error |-> "Task token expired"])
    ELSE Response(400, [error |-> "Invalid task token"])

\* a variant without the top-level except: the invocation ends without a response
ErrorPropagates == EmptyDict

\* except Exception as e: ... 500
ErrorResponse == Response(500, [error |-> "exception"])

\* event.get("pathParameters", {}) or {}, then .get("callback_token")
callback_token_of(event) ==
    IF event.pathParameters.isNone THEN None
    ELSE Get(event.pathParameters.dict, "callback_token", None)

\* webhook requests: the path parameters API Gateway passes on and the JSON body
Dict(d) == [isNone |-> FALSE, dict |-> d]
NoDict == [isNone |-> TRUE, dict |-> EmptyDict]
Body(d) == [parses |-> TRUE, dict |-> d]
Malformed == [parses |-> FALSE, dict |-> EmptyDict]

Output1 == [url |-> "s3://out.mp4"]

Bodies ==
    { Body([id |-> "j1", status |-> sCOMPLETED, output |-> Output1]),
      Body([status |-> sCOMPLETED]),
      Body([id |-> "j1", status |-> sFAILED, error |-> sGpuOom]),
      Body([id |-> "j1", status |-> sCANCELLED]),
      Body([id |-> "j1", status |-> sTIMED_OUT]),
      Body([id |-> "j1", status |-> sIN_PROGRESS]),
      Body([id |-> "j1"]),
      Malformed }

NoTokenPaths ==
    { NoDict, Dict(EmptyDict), Dict([callback_token |-> None]),
      Dict([callback_token |-> ""]) }

WebhookEvents ==
    [pathParameters : {Dict([callback_token |-> t]) : t \in CallbackTokens},
     body : Bodies]
    \cup [pathParameters : NoTokenPaths,
          body : {Body([id |-> "j1", status |-> sCOMPLETED, output |-> Output1])}]

\* an invocation of the webhook handler: where it is (pc), what it received, how
\* its get_item call went ("none" when it made none) and the item it returned, the
\* resume call it made and how that call ended, the number of update_item calls
\* and the item as the update left it, and its response
IdleWebhook ==
    [pc |-> "idle", event |-> EmptyDict, read |-> "none", record |-> EmptyDict,
     call |-> EmptyDict, outcome |-> "none", writes |-> 0, written |-> EmptyDict,
     response |-> EmptyDict]

Returned(w, response) == [w EXCEPT !.pc = "done", !.response = response]

\* a variant that tests `callback_token is None`
MissingTokenIsNone(tok) == tok = None

\* if not callback_token
MissingToken(tok) == ~Truthy(tok)

\* a variant without the `if not record` return
NotFoundNever(record) == FALSE

\* if not record
NotFound(record) == record = EmptyDict

\* handler, from its entry to its first return or to the resume call; `readOk` is
\* whether table.get_item returned (TRUE) or raised ClientError (FALSE)
HandlerEntry(event, readOk) ==
    LET w0 == [IdleWebhook EXCEPT !.event = event]
        tok == callback_token_of(event)
    IN  IF MissingToken(tok)
        THEN Returned(w0, Response(400, [error |-> "Missing callback_token in path"]))
        ELSE IF ~event.body.parses
        THEN Returned(w0, ErrorResponse)
        ELSE IF ~readOk
        THEN Returned([w0 EXCEPT !.read = "ClientError"], ErrorResponse)
        ELSE LET record == get_item(tok)
                 w == [w0 EXCEPT !.read = "ok", !.record = record]
             IN  IF NotFound(record)
                 THEN Returned(w, Response(404, [error |-> "Callback token not found"]))
                 ELSE IF IsTerminal(record)
                 THEN Returned(w, Response(200,
                          [message |-> "Callback already processed",
                           completed_at |-> Get(record, "completed_at", NoTime)]))
                 ELSE IF ~Truthy(Get(record, "task_token", None))
                 THEN Returned(w, Response(500, [error |-> "Missing task_token in record"]))
                 ELSE IF ResumeOp(status_of(event.body.dict)) = "none"
                 THEN Returned(w, Response(200,
                          [message |-> "Ignored unexpected status",
                           status |-> status_of(event.body.dict)]))
                 ELSE [w EXCEPT !.pc = "resume"]

\* how the engine can answer a resume call for task token t: it accepts the first
\* resume of a parked task and rejects a resume of a task that was resumed or has
\* timed out; any call can fail otherwise (throttling, network)
SfnOutcomes(t) ==
    IF t \in DOMAIN engine /\ engine[t] = "open"
    THEN {"ok", "error"}
    ELSE {"TaskTimedOut", "InvalidToken", "error"}

Accepted(op) == IF op = "send_task_success" THEN "succeeded" ELSE "failed"

\* POST /webhook/{callback_token} arrives: lines 112-174
Receive(d, event, readOk) ==
    /\ wh[d].pc = "idle"
    /\ \A e \in Deliveries : e < d => wh[e].pc # "idle"
    /\ wh' = [wh EXCEPT ![d] = HandlerEntry(event, readOk)]
    /\ UNCHANGED <<store, engine, cache, sub>>

\* sfn_client.send_task_success / send_task_failure: lines 176-181, 223-229
Resume(d, outcome) ==
    /\ wh[d].pc = "resume"
    /\ LET w == wh[d]
           call == ResumeCall(callback_token_of(w.event), w.event.body.dict, w.record)
       IN  /\ outcome \in SfnOutcomes(call.taskToken)
           /\ engine' = IF outcome = "ok"
                        THEN [engine EXCEPT ![call.taskToken] = Accepted(call.op)]
                        ELSE engine
           /\ wh' = [wh EXCEPT ![d] =
                        IF outcome = "error"
                        THEN Returned([w EXCEPT !.call = call, !.outcome = outcome],
                                      ErrorResponse)
                        ELSE [w EXCEPT !.pc = "update", !.call = call,
                                       !.outcome = outcome]]
    /\ UNCHANGED <<store, cache, sub>>

\* update_callback_completed and the return: lines 184-216, 232-263, 275-289;
\* `writeOk` is whether table.update_item returned or raised ClientError
Update(d, now, writeOk) ==
    /\ wh[d].pc = "update"
    /\ LET w == wh[d]
           tok == callback_token_of(w.event)
           body == w.event.body.dict
           status == UpdateStatus(w.call.op, w.outcome)
           result == UpdateResult(w.call.op, w.outcome, body)
       IN  IF writeOk
           THEN /\ store' = update_callback_completed(tok, status, result, now)
                /\ wh' = [wh EXCEPT ![d] =
                            Returned([w EXCEPT !.writes = 1, !.written = store'[tok]],
                                     FinalResponse(w.outcome, body))]
           ELSE /\ store' = store
                /\ wh' = [wh EXCEPT ![d] =
                            Returned([w EXCEPT !.writes = 1], ErrorResponse)]
    /\ UNCHANGED <<engine, cache, sub>>

\* the workflow engine's own timeout of a parked task
TaskTimeout(t) ==
    /\ t \in DOMAIN engine
    /\ engine[t] = "open"
    /\ engine' = [engine EXCEPT ![t] = "timedout"]
    /\ UNCHANGED <<store, cache, sub, wh>>

\* the store's TTL expiry removes an item
Expire(tok) ==
    /\ tok \in DOMAIN store
    /\ store' = [t \in DOMAIN store \ {tok} |-> store[t]]
    /\ UNCHANGED <<engine, cache, sub, wh>>

(***************************** job submission *******************************)
\* os.environ["WEBHOOK_BASE_URL"], as scheme-and-host followed by the path segments
\* ("https://api.example.com/webhook/" ends with an empty segment)
WEBHOOK_BASE_URL == <<"https://api.example.com", "webhook", "">>

\* a variant that appends ref to the segments of the base
urljoinAppend(base, ref) == base \o <<ref>>

\* urllib.parse.urljoin(base, ref) for a ref that is one plain path segment: the
\* last segment of the base path is replaced by ref
urljoin(base, ref) == SubSeq(base, 1, Len(base) - 1) \o <<ref>>

ttl_hours == 168
SecondsPerHour == 3600

\* secretsmanager_client.get_secret_value: ClientError, a response without
\* SecretString, or SecretString holding JSON (isJson, with the decoded dict) or
\* any other text
SecretJson(d, text) == [kind |-> "SecretString", isJson |-> TRUE, dict |-> d, text |-> text]
SecretText(text) == [kind |-> "SecretString", isJson |-> FALSE, dict |-> EmptyDict, text |-> text]

SecretResponses ==
    { [kind |-> "ClientError", isJson |-> FALSE, dict |-> EmptyDict, text |-> ""],
      [kind |-> "SecretBinary", isJson |-> FALSE, dict |-> EmptyDict, text |-> ""],
      SecretJson([RUNPOD_API_KEY |-> "key1"], "{RUNPOD_API_KEY:key1}"),
      SecretJson([api_key |-> "key2"], "{api_key:key2}"),
      SecretJson([token |-> "key1"], "{token:key1}"),
      SecretJson(EmptyDict, "{}"),
      SecretText("key1"),
      SecretText("") }

\* next(iter(secret_dict.values())): the value of the first key
FirstValue(d) == d[CHOOSE k \in DOMAIN d : TRUE]

\* the api_key lines 68-85 compute from a response, or None where they raise
ApiKeyOf(resp) ==
    IF resp.kind # "SecretString" THEN None
    ELSE LET parsed ==
                 IF ~resp.isJson THEN resp.text
                 ELSE LET named ==
                              IF Truthy(Get(resp.dict, "RUNPOD_API_KEY", None))
                              THEN resp.dict.RUNPOD_API_KEY
                              ELSE IF Truthy(Get(resp.dict, "api_key", None))
                              THEN resp.dict.api_key
                              ELSE Get(resp.dict, "key", None)
                      IN  IF Truthy(named) THEN named
                          ELSE IF resp.dict = EmptyDict THEN resp.text
                          ELSE FirstValue(resp.dict)
         IN  IF Truthy(parsed) THEN parsed ELSE None

\* a variant that looks the secret up on every call
get_runpod_api_keyUncached(resp) ==
    [key |-> ApiKeyOf(resp), cache |-> ApiKeyOf(resp), fetched |-> 1]

\* get_runpod_api_key(): [key, cache, fetched]; key = None where it raises
get_runpod_api_key(resp) ==
    IF cache # None
    THEN [key |-> cache, cache |-> cache, fetched |-> 0]
    ELSE [key |-> ApiKeyOf(resp), cache |-> ApiKeyOf(resp), fetched |-> 1]

\* submit events from the workflow engine: the s-th task's event and the same
\* event with a required field absent or empty
ValidEvent(s) ==
    [task_token |-> TaskTokenNames[s], exec_id |-> "e1",
     segment |-> [filename |-> "seg_0000.mp4"],
     input_presigned_url |-> "https://s3/in", output_presigned_url |-> "https://s3/out",
     runpod |-> [run_endpoint |-> "https://api.runpod.ai/v2/1234/run"],
     params |-> [model |-> "seedvr2"]]

Without(dict, key) == [k \in DOMAIN dict \ {key} |-> dict[k]]

\* the s-th event as the caller can get it wrong, by name
SubmitEvent(s, variant) ==
    LET e == ValidEvent(s)
    IN  CASE variant = "valid" -> e
          [] variant = "no params" -> Without(e, "params")
          [] variant = "no task_token" -> Without(e, "task_token")
          [] variant = "empty task_token" -> [e EXCEPT !.task_token = ""]
          [] variant = "no exec_id" -> Without(e, "exec_id")
          [] variant = "empty exec_id" -> [e EXCEPT !.exec_id = ""]
          [] variant = "no segment" -> Without(e, "segment")
          [] variant = "no filename" -> [e EXCEPT !.segment = EmptyDict]
          [] variant = "empty filename" -> [e EXCEPT !.segment = [filename |-> ""]]
          [] variant = "no input url" -> Without(e, "input_presigned_url")
          [] variant = "empty output url" -> [e EXCEPT !.output_presigned_url = ""]
          [] variant = "no runpod" -> Without(e, "runpod")
          [] variant = "empty run_endpoint" -> [e EXCEPT !.runpod = [run_endpoint |-> ""]]

SubmitVariants ==
    { "valid", "no params", "no task_token", "empty task_token", "no exec_id",
      "empty exec_id", "no segment", "no filename", "empty filename",
      "no input url", "empty output url", "no runpod", "empty run_endpoint" }

\* a variant without the exec_id check
ValidationErrorNoExecId(event) ==
    IF ~Truthy(Get(event, "task_token", None))
    THEN "Missing required field: task_token"
    ELSE IF ~Truthy(Get(Get(event, "segment", EmptyDict), "filename", None))
    THEN "Missing required field: segment.filename"
    ELSE IF ~Truthy(Get(event, "input_presigned_url", None))
            \/ ~Truthy(Get(event, "output_presigned_url", None))
    THEN "Missing required fields: input_presigned_url, output_presigned_url"
    ELSE IF ~Truthy(Get(Get(event, "runpod", EmptyDict), "run_endpoint", None))
    THEN "Missing required field: runpod.run_endpoint"
    ELSE None

\* lines 254-276: the ValueError message, or None for a valid event
ValidationError(event) ==
    IF ~Truthy(Get(event, "task_token", None))
    THEN "Missing required field: task_token"
    ELSE IF ~Truthy(Get(event, "exec_id", None))
    THEN "Missing required field: exec_id"
    ELSE IF ~Truthy(Get(Get(event, "segment", EmptyDict), "filename", None))
    THEN "Missing required field: segment.filename"
    ELSE IF ~Truthy(Get(event, "input_presigned_url", None))
            \/ ~Truthy(Get(event, "output_presigned_url", None))
    THEN "Missing required fields: input_presigned_url, output_presigned_url"
    ELSE IF ~Truthy(Get(Get(event, "runpod", EmptyDict), "run_endpoint", None))
    THEN "Missing required field: runpod.run_endpoint"
    ELSE None

\* the request submit_runpod_job POSTs: lines 134-154
PostRequest(event, webhook_url, api_key) ==
    [url |-> event.runpod.run_endpoint,
     headers |-> [Authorization |-> <<"Bearer ", api_key>>,
                  ContentType |-> "application/json"],
     json |-> [input |-> [input_presigned_url |-> event.input_presigned_url,
                          output_presigned_url |-> event.output_presigned_url,
                          params |-> Get(event, "params", EmptyDict)],
               webhook |-> webhook_url]]

\* a variant that passes exec_id and task_token in each other's place
CallbackItemSwapped(callback_token, task_token, exec_id, segment_filename, job_id, now) ==
    LET expires_at == now + 168 * 3600 * UnitsPerSecond
    IN  [callback_token |-> callback_token,
         task_token |-> exec_id,
         job_id |-> job_id,
         exec_id |-> task_token,
         segment_filename |-> segment_filename,
         status |-> "PENDING",
         created_at |-> now,
         expires_at |-> expires_at,
         ttl |-> expires_at \div UnitsPerSecond]

\* a variant that takes the ttl attribute from the creation time
CallbackItemTtlOfNow(callback_token, task_token, exec_id, segment_filename, job_id, now) ==
    [callback_token |-> callback_token,
     task_token |-> task_token,
     job_id |-> job_id,
     exec_id |-> exec_id,
     segment_filename |-> segment_filename,
     status |-> "PENDING",
     created_at |-> now,
     expires_at |-> now + ttl_hours * SecondsPerHour * UnitsPerSecond,
     ttl |-> now \div UnitsPerSecond]

\* the item store_callback_mapping puts: lines 194-209
CallbackItem(callback_token, task_token, exec_id, segment_filename, job_id, now) ==
    LET expires_at == now + ttl_hours * SecondsPerHour * UnitsPerSecond
    IN  [callback_token |-> callback_token,
         task_token |-> task_token,
         job_id |-> job_id,
         exec_id |-> exec_id,
         segment_filename |-> segment_filename,
         status |-> "PENDING",
         created_at |-> now,
         expires_at |-> expires_at,
         ttl |-> expires_at \div UnitsPerSecond]

\* an invocation of the submit handler: where it is (pc), its event, the token and
\* URL it built, the number of secret lookups, the request it POSTed and how the
\* POST ended, the job id, the number of put_item calls and the item as the put
\* left it, and the response it returned or the error it raised
IdleSubmit ==
    [pc |-> "idle", event |-> EmptyDict, callback_token |-> None,
     webhook_url |-> <<>>, fetched |-> 0, request |-> EmptyDict, post |-> "none",
     job_id |-> None, puts |-> 0, item |-> EmptyDict, response |-> EmptyDict,
     error |-> None]

Raised(u, error) == [u EXCEPT !.pc = "failed", !.error = error]

\* generate_callback_token(): secrets.token_hex(32) draws a token that, but for a
\* negligible probability, no earlier call returned.  Nothing in the program tells
\* one such token from another, so the s-th invocation is given the s-th name.
generate_callback_token(s) == HexTokenNames[s]

\* requests.post outcomes: a 2xx response with an id, a 2xx response without one,
\* or RequestException (network error, or raise_for_status on a non-2xx response)
PostOutcomes == {"id", "no id", "RequestException"}

\* a variant without the `if not job_id` check
AfterPostNoIdCheck(u, post, job_id) ==
    IF post = "id" THEN [u EXCEPT !.pc = "store", !.job_id = job_id]
    ELSE IF post = "no id" THEN [u EXCEPT !.pc = "store"]
    ELSE Raised(u, "Failed to submit RunPod job")

\* submit_runpod_job after requests.post, lines 155-170: it returns the job id of
\* the response, or raises
AfterPost(u, post, job_id) ==
    IF post = "id" THEN [u EXCEPT !.pc = "store", !.job_id = job_id]
    ELSE IF post = "no id" THEN Raised(u, "No job ID in RunPod response")
    ELSE Raised(u, "Failed to submit RunPod job")

\* lambda_handler from its entry to the return of submit_runpod_job: lines 253-295;
\* the workflow engine has parked the task whose token the event carries
SubmitJob(s, event, secret, post) ==
    /\ sub[s].pc = "idle"
    /\ \A r \in Submits : r < s => sub[r].pc \in {"done", "failed"}
    /\ LET u0 == [IdleSubmit EXCEPT !.event = event]
           token == generate_callback_token(s)
           invalid == ValidationError(event)
           key == get_runpod_api_key(secret)
           webhook_url == urljoin(WEBHOOK_BASE_URL, token)
           u1 == [u0 EXCEPT !.callback_token = token, !.webhook_url = webhook_url,
                            !.fetched = key.fetched]
       IN  IF invalid # None
           THEN /\ sub' = [sub EXCEPT ![s] = Raised(u0, invalid)]
                /\ cache' = cache
           ELSE IF key.key = None
           THEN /\ sub' = [sub EXCEPT ![s] =
                              Raised(u1, "Failed to retrieve RunPod API key")]
                /\ cache' = cache
           ELSE /\ cache' = key.cache
                /\ sub' = [sub EXCEPT ![s] =
                     LET u2 == [u1 EXCEPT !.post = post, !.request =
                                    PostRequest(event, webhook_url, key.key)]
                     IN  AfterPost(u2, post, JobIdNames[s])]
    /\ engine' = IF Truthy(Get(event, "task_token", None))
                 THEN (event.task_token :> "open") @@ engine
                 ELSE engine
    /\ UNCHANGED <<store, wh>>

\* a variant in which the item is written although put_item raises
StoreMappingWritesAndRaises(s, now, writeOk) ==
    /\ sub[s].pc = "store"
    /\ LET u == sub[s]
           item == CallbackItem(u.callback_token, u.event.task_token, u.event.exec_id,
                                u.event.segment.filename, u.job_id, now)
       IN  /\ store' = put_item(item)
           /\ sub' = [sub EXCEPT ![s] =
                        IF writeOk
                        THEN [u EXCEPT !.pc = "done", !.puts = 1,
                                       !.item = store'[u.callback_token],
                                       !.response =
                                           [callback_token |-> u.callback_token,
                                            job_id |-> u.job_id,
                                            webhook_url |-> u.webhook_url,
                                            segment_filename |-> u.event.segment.filename,
                                            exec_id |-> u.event.exec_id]]
                        ELSE Raised([u EXCEPT !.puts = 1], "ClientError")]
    /\ UNCHANGED <<engine, cache, wh>>

\* store_callback_mapping and the return: lines 298-316; `writeOk` is whether
\* table.put_item returned or raised ClientError
StoreMapping(s, now, writeOk) ==
    /\ sub[s].pc = "store"
    /\ LET u == sub[s]
           item == CallbackItem(u.callback_token, u.event.task_token, u.event.exec_id,
                                u.event.segment.filename, u.job_id, now)
       IN  IF writeOk
           THEN /\ store' = put_item(item)
                /\ sub' = [sub EXCEPT ![s] =
                             [u EXCEPT !.pc = "done", !.puts = 1,
                                       !.item = store'[u.callback_token],
                                       !.response =
                                           [callback_token |-> u.callback_token,
                                            job_id |-> u.job_id,
                                            webhook_url |-> u.webhook_url,
                                            segment_filename |-> u.event.segment.filename,
                                            exec_id |-> u.event.exec_id]]]
           ELSE /\ store' = store
                /\ sub' = [sub EXCEPT ![s] = Raised([u EXCEPT !.puts = 1], "ClientError")]
    /\ UNCHANGED <<engine, cache, wh>>

(***************************** specification ********************************)
Init ==
    /\ store = EmptyDict
    /\ engine = EmptyDict
    /\ cache = None
    /\ sub = [s \in Submits |-> IdleSubmit]
    /\ wh = [d \in Deliveries |-> IdleWebhook]

\* no webhook invocation is in flight
Quiet == \A d \in Deliveries : wh[d].pc \in {"idle", "done"}

\* the answers of the environment: every one, or only those of an environment
\* in which no call fails in transit
Booleans(faults) == IF faults THEN BOOLEAN ELSE {TRUE}
Posts(faults) == IF faults THEN PostOutcomes ELSE {"id"}
Resumes(faults) ==
    IF faults THEN {"ok", "error", "TaskTimedOut", "InvalidToken"}
    ELSE {"ok", "TaskTimedOut", "InvalidToken"}

\* the system with at most `jobs` submit invocations and `dels` webhook invocations,
\* fed from the given inputs; with `overlap` the webhook invocations run
\* concurrently, without it one after the other
NextOn(jobs, dels, variants, secrets, events, overlap, faults) ==
    \/ \E s \in 1..jobs, secret \in secrets, post \in Posts(faults), variant \in variants :
          SubmitJob(s, SubmitEvent(s, variant), secret, post)
    \/ \E s \in Submits, now \in Times, writeOk \in Booleans(faults) :
          StoreMapping(s, now, writeOk)
    \/ \E d \in 1..dels, event \in events, readOk \in Booleans(faults) :
          (overlap \/ Quiet) /\ Receive(d, event, readOk)
    \/ \E d \in Deliveries, outcome \in Resumes(faults) : Resume(d, outcome)
    \/ \E d \in Deliveries, now \in Times, writeOk \in Booleans(faults) :
          Update(d, now, writeOk)
    \/ \E t \in TaskTokens : TaskTimeout(t)
    \/ \E tok \in CallbackTokens : Expire(tok)

CoreSecrets == {SecretJson([RUNPOD_API_KEY |-> "key1"], "{RUNPOD_API_KEY:key1}")}
CoreBody == Body([id |-> "j1", status |-> sCOMPLETED, output |-> Output1])
CoreEvents ==
    [pathParameters : {Dict([callback_token |-> t]) : t \in CallbackTokens},
     body : { CoreBody,
              Body([id |-> "j1", status |-> sFAILED, error |-> sGpuOom]),
              Body([id |-> "j1", status |-> sTIMED_OUT]),
              Body([id |-> "j1"]) }]

\* one submitted job and every webhook request, concurrently
CoreJobs == 1
Next == NextOn(CoreJobs, MaxDeliveries, {"valid"}, CoreSecrets, WebhookEvents, TRUE, TRUE)

Spec == Init /\ [][Next]_vars

\* the same in an environment where no call fails in transit
NextReliable ==
    NextOn(CoreJobs, MaxDeliveries, {"valid"}, CoreSecrets, WebhookEvents, TRUE, FALSE)

SpecReliable == Init /\ [][NextReliable]_vars

\* the same with one delivery after the other
NextSeq ==
    NextOn(CoreJobs, MaxDeliveries, {"valid"}, CoreSecrets, WebhookEvents, FALSE, TRUE)

SpecSeq == Init /\ [][NextSeq]_vars

\* every submit event and secret, and one webhook delivery
SubmitDeliveries == 1
NextSubmit ==
    NextOn(MaxSubmits, SubmitDeliveries, SubmitVariants, SecretResponses,
           {e \in CoreEvents : e.body = CoreBody}, FALSE, TRUE)

SpecSubmit == Init /\ [][NextSubmit]_vars

(***************************** properties ***********************************)
Done(d) == wh[d].pc = "done"
TokenOf(d) == callback_token_of(wh[d].event)
StatusOf(d) == status_of(wh[d].event.body.dict)
RecordStatus(d) == Get(wh[d].record, "status", None)

\* the webhook invocations that issued a resume call for task token t
ResumeCalls(t) ==
    {d \in Deliveries : wh[d].call # EmptyDict /\ wh[d].call.taskToken = t}

\* C1: for every correlation record, whatever the number and interleaving of the
\* webhook deliveries for its callback token, the handler issues at most one
\* resume call (send_task_success or send_task_failure) for its task token.
C1_AtMostOneResumeCall == \A t \in TaskTokens : Cardinality(ResumeCalls(t)) <= 1

\* C2: the status of a correlation record only ever changes from PENDING to
\* COMPLETED or from PENDING to FAILED; a COMPLETED or FAILED status never changes.
C2_StatusMonotonic ==
    [][\A tok \in DOMAIN store \cap DOMAIN store' :
          store'[tok].status # store[tok].status
              => /\ store[tok].status = "PENDING"
                 /\ store'[tok].status \in {"COMPLETED", "FAILED"}]_vars

\* C3: a webhook with a recognized status delivered twice, one delivery after the
\* other, to the same callback token makes exactly one resume call in total, and
\* the second delivery returns 200 with the completed_at the first one wrote.
\* Stated for the deliveries the claim is about: the first finds the record PENDING
\* and the engine accepts its resume, and the record is still there for the second.
C3_TwiceResumesOnce ==
    ( /\ Done(1) /\ Done(2)
      /\ wh[1].event = wh[2].event
      /\ RecordStatus(1) = "PENDING"
      /\ wh[1].outcome = "ok"
      /\ wh[2].record # EmptyDict )
    => /\ Cardinality(ResumeCalls(wh[1].record.task_token)) = 1
       /\ wh[2].response.statusCode = 200
       /\ Get(wh[2].response.body, "completed_at", NoTime)
              = Get(wh[1].written, "completed_at", NoTime)
       /\ wh[1].written # EmptyDict

\* a webhook invocation that has returned, whose get_item returned a PENDING item
\* and whose body carries status `status`
Processed(d, statuses) ==
    /\ Done(d)
    /\ wh[d].read = "ok"
    /\ RecordStatus(d) = "PENDING"
    /\ StatusOf(d) \in statuses

ResumedWith(d, op, state) ==
    /\ wh[d].call # EmptyDict
    /\ wh[d].call.op = op
    /\ wh[d].call.taskToken = wh[d].record.task_token
    /\ wh[d].outcome = "ok"
    /\ engine[wh[d].record.task_token] = state

\* no call of the invocation to the engine or to the store failed in transit
NoTransitFailure(d) ==
    /\ wh[d].outcome # "error"
    /\ wh[d].writes = 1 => wh[d].written # EmptyDict

\* C4 as claimed: every webhook with status COMPLETED against a PENDING record
\* resumes the workflow with success, using the record's task token, makes the
\* record COMPLETED and is answered 200 (the invocations in which a call failed in
\* transit left aside).
C4_EveryCompletedResumes ==
    \A d \in Deliveries :
        (Processed(d, {sCOMPLETED}) /\ NoTransitFailure(d))
            => /\ ResumedWith(d, "send_task_success", "succeeded")
               /\ Get(wh[d].written, "status", None) = "COMPLETED"
               /\ wh[d].response.statusCode = 200

\* the engine accepted the resume call of d and its update_item call returned
Accepted_Stored(d) == wh[d].outcome = "ok" /\ wh[d].written # EmptyDict

\* C4, amended: a webhook with status COMPLETED against a PENDING record, whose
\* resume call the engine accepts and whose store update succeeds, has made one
\* resume call, send_task_success with the record's task token, has left the
\* record COMPLETED and is answered 200.
C4_CompletedResumesSuccess ==
    \A d \in Deliveries :
        (Processed(d, {sCOMPLETED}) /\ Accepted_Stored(d))
            => /\ ResumedWith(d, "send_task_success", "succeeded")
               /\ wh[d].writes = 1
               /\ wh[d].written.status = "COMPLETED"
               /\ wh[d].response.statusCode = 200

C4_Witness ==
    \E d \in Deliveries : Processed(d, {sCOMPLETED}) /\ Accepted_Stored(d)

\* C5 as claimed: every webhook with status FAILED, CANCELLED or TIMED_OUT against
\* a PENDING record resumes the workflow with failure, using the record's task
\* token, makes the record FAILED and is answered 200 (the invocations in which a
\* call failed in transit left aside).
C5_EveryFailedResumes ==
    \A d \in Deliveries :
        (Processed(d, FailureStatuses) /\ NoTransitFailure(d))
            => /\ ResumedWith(d, "send_task_failure", "failed")
               /\ Get(wh[d].written, "status", None) = "FAILED"
               /\ wh[d].response.statusCode = 200

\* C5, amended: a webhook with status FAILED, CANCELLED or TIMED_OUT against a
\* PENDING record, whose resume call the engine accepts and whose store update
\* succeeds, has made one resume call, send_task_failure with the record's task
\* token, has left the record FAILED and is answered 200.
C5_FailedResumesFailure ==
    \A d \in Deliveries :
        (Processed(d, {sFAILED, sCANCELLED, sTIMED_OUT}) /\ Accepted_Stored(d))
            => /\ ResumedWith(d, "send_task_failure", "failed")
               /\ wh[d].writes = 1
               /\ wh[d].written.status = "FAILED"
               /\ wh[d].response.statusCode = 200

C5_Witness ==
    \E d \in Deliveries : Processed(d, {sTIMED_OUT}) /\ Accepted_Stored(d)

\* the webhook invocation made no call to the workflow engine and none to update_item
NoSideEffect(d) == wh[d].call = EmptyDict /\ wh[d].writes = 0

\* C6: a webhook delivered to a record that is already COMPLETED or FAILED returns
\* 200 with the stored completed_at, makes no workflow-engine call and no store
\* update, whatever status its payload carries.
C6_TerminalRecordIsNoOp ==
    \A d \in Deliveries :
        (Done(d) /\ wh[d].read = "ok" /\ RecordStatus(d) \in {"COMPLETED", "FAILED"})
            => /\ wh[d].response.statusCode = 200
               /\ "completed_at" \in DOMAIN wh[d].response.body
               /\ wh[d].response.body.completed_at = wh[d].record.completed_at
               /\ NoSideEffect(d)

C6_Witness ==
    \E d \in Deliveries :
        /\ Done(d) /\ wh[d].read = "ok" /\ RecordStatus(d) = "FAILED"
        /\ StatusOf(d) = sCOMPLETED

\* C7: a webhook delivered to a callback token for which the store holds no record
\* (its get_item call returns no item) returns 404 and makes no resume call and no
\* store write.
C7_UnknownTokenIs404 ==
    \A d \in Deliveries :
        (Done(d) /\ wh[d].read = "ok" /\ wh[d].record = EmptyDict)
            => wh[d].response.statusCode = 404 /\ NoSideEffect(d)

C7_Witness ==
    \E d \in Deliveries : Done(d) /\ wh[d].read = "ok" /\ wh[d].record = EmptyDict

\* the request carries no callback token: no path parameters, none named
\* callback_token, or a null or empty one
NoTokenRequest(event) ==
    \/ event.pathParameters.isNone
    \/ "callback_token" \notin DOMAIN event.pathParameters.dict
    \/ event.pathParameters.dict.callback_token \in {None, ""}

\* C8: a webhook request whose path parameters carry no callback token returns 400
\* and makes no store read, no store write and no resume call.
C8_MissingTokenIs400 ==
    \A d \in Deliveries :
        (Done(d) /\ NoTokenRequest(wh[d].event))
            => /\ wh[d].response.statusCode = 400
               /\ wh[d].read = "none"
               /\ NoSideEffect(d)

C8_Witness ==
    \E d \in Deliveries :
        Done(d) /\ wh[d].event.pathParameters = Dict([callback_token |-> ""])

\* C9: a webhook delivered to a PENDING record with a status other than COMPLETED,
\* FAILED, CANCELLED or TIMED_OUT (or with no status) makes no resume call and no
\* store update, so the record stays as it is, and is answered 200.
C9_UnrecognizedStatusIgnored ==
    \A d \in Deliveries :
        ( /\ Done(d) /\ wh[d].read = "ok" /\ RecordStatus(d) = "PENDING"
          /\ StatusOf(d) \notin {sCOMPLETED, sFAILED, sCANCELLED, sTIMED_OUT} )
            => wh[d].response.statusCode = 200 /\ NoSideEffect(d)

C9_Witness ==
    \E d \in Deliveries :
        /\ Done(d) /\ wh[d].read = "ok" /\ RecordStatus(d) = "PENDING"
        /\ "status" \notin DOMAIN wh[d].event.body.dict

\* C10: a submit invocation with a valid event whose POST returns a job id and
\* whose put_item returns has POSTed once and has put one item, keyed by its
\* non-empty callback token, with status PENDING, the event's task_token, exec_id
\* and segment filename and the job id the POST returned; it returns its response.
SubmittedAndStored(s) ==
    /\ sub[s].pc \in {"done", "failed"}
    /\ sub[s].post = "id"
    /\ sub[s].puts = 1
    /\ sub[s].item # EmptyDict

C10_SubmitWritesOnePendingRecord ==
    \A s \in Submits :
        SubmittedAndStored(s)
            => /\ sub[s].pc = "done"
               /\ sub[s].request # EmptyDict
               /\ Truthy(sub[s].callback_token)
               /\ sub[s].item.callback_token = sub[s].callback_token
               /\ sub[s].item.status = "PENDING"
               /\ sub[s].item.task_token = sub[s].event.task_token
               /\ sub[s].item.exec_id = sub[s].event.exec_id
               /\ sub[s].item.segment_filename = sub[s].event.segment.filename
               /\ sub[s].item.job_id = JobIdNames[s]
               /\ sub[s].response.callback_token = sub[s].callback_token

C10_Witness == \E s \in Submits : s > 1 /\ SubmittedAndStored(s)

\* the submit invocation has ended: it returned its response or raised
Ended(s) == sub[s].pc \in {"done", "failed"}

\* C11: a submit invocation whose POST fails (RequestException: network error or
\* non-2xx response) or returns no job id raises an error, has made no put_item
\* call and leaves no record under its callback token; a put_item call is made
\* only by an invocation whose POST returned a job id.
C11_FailedPostWritesNothing ==
    \A s \in Submits :
        /\ (Ended(s) /\ sub[s].post \in {"no id", "RequestException"})
               => /\ sub[s].pc = "failed"
                  /\ sub[s].error # None
                  /\ sub[s].response = EmptyDict
                  /\ sub[s].puts = 0
                  /\ sub[s].callback_token \notin DOMAIN store
        /\ sub[s].puts > 0 => (sub[s].post = "id" /\ sub[s].job_id # None)

C11_Witness ==
    /\ Ended(1) /\ sub[1].post = "RequestException"
    /\ Ended(2) /\ sub[2].post = "no id"

\* the required fields that are absent from a submit event or empty in it
Lacks(event, field) ==
    CASE field = "task_token" ->
            "task_token" \notin DOMAIN event \/ event.task_token \in {None, ""}
      [] field = "exec_id" ->
            "exec_id" \notin DOMAIN event \/ event.exec_id \in {None, ""}
      [] field = "segment.filename" ->
            \/ "segment" \notin DOMAIN event
            \/ "filename" \notin DOMAIN event.segment
            \/ event.segment.filename \in {None, ""}
      [] field = "runpod.run_endpoint" ->
            \/ "runpod" \notin DOMAIN event
            \/ "run_endpoint" \notin DOMAIN event.runpod
            \/ event.runpod.run_endpoint \in {None, ""}

RequiredFields == {"task_token", "exec_id", "segment.filename", "runpod.run_endpoint"}

MissingFields(event) == {f \in RequiredFields : Lacks(event, f)}

\* the field an error message names
NamedField(error) ==
    CASE error = "Missing required field: task_token" -> "task_token"
      [] error = "Missing required field: exec_id" -> "exec_id"
      [] error = "Missing required field: segment.filename" -> "segment.filename"
      [] error = "Missing required field: runpod.run_endpoint" -> "runpod.run_endpoint"
      [] OTHER -> None

\* C12: a submit invocation whose event lacks task_token, exec_id, the segment
\* filename or the endpoint URL (the key absent, or its value empty) raises an
\* error that names a field the event lacks, and it has issued no callback token,
\* looked up no API key, POSTed no request and made no put_item call.
C12_MissingFieldFailsFirst ==
    \A s \in Submits :
        (sub[s].pc # "idle" /\ MissingFields(sub[s].event) # {})
            => /\ sub[s].pc = "failed"
               /\ NamedField(sub[s].error) \in MissingFields(sub[s].event)
               /\ sub[s].callback_token = None
               /\ sub[s].fetched = 0
               /\ sub[s].request = EmptyDict
               /\ sub[s].post = "none"
               /\ sub[s].puts = 0

C12_Witness ==
    /\ Ended(1) /\ MissingFields(sub[1].event) = {"runpod.run_endpoint"}
    /\ Ended(2) /\ MissingFields(sub[2].event) = {"segment.filename"}
    /\ "segment" \in DOMAIN sub[2].event

\* the submit invocation POSTed its job and its put_item call raised
Orphaned(s) ==
    /\ sub[s].pc = "failed"
    /\ sub[s].post = "id"
    /\ sub[s].puts = 1

\* C13: a submit invocation whose put_item raises after its POST returned a job id
\* raises an error and leaves no record under the callback token it issued; a
\* webhook delivered to that token whose get_item call returns is answered 404,
\* and every webhook delivered to it gets a response and makes no resume call and
\* no store update.
C13_OrphanedJobIsNotFound ==
    \A s \in Submits :
        Orphaned(s)
            => /\ sub[s].error # None
               /\ sub[s].response = EmptyDict
               /\ Truthy(sub[s].callback_token)
               /\ sub[s].callback_token \notin DOMAIN store
               /\ \A d \in Deliveries :
                     (Done(d) /\ TokenOf(d) = sub[s].callback_token)
                         => /\ wh[d].response.statusCode \in {404, 500}
                            /\ wh[d].read = "ok" => wh[d].response.statusCode = 404
                            /\ NoSideEffect(d)

C13_Witness ==
    \E s \in Submits, d \in Deliveries :
        /\ Orphaned(s)
        /\ Done(d) /\ TokenOf(d) = sub[s].callback_token
        /\ wh[d].response.statusCode = 404

\* the path parameters of a request POSTed to url, under the route
\* POST /webhook/{callback_token}; NoDict where the route does not match
Route(url) ==
    IF Len(url) = 3 /\ url[2] = "webhook" /\ url[3] # ""
    THEN Dict([callback_token |-> url[3]])
    ELSE NoDict

\* C14: after a successful submit, the callback token returned is the last segment
\* of the returned webhook URL, which is the base URL's path followed by the token
\* and is the URL sent to RunPod, and it is the key of the item put; a webhook
\* POSTed to the returned URL carries that token, and the task token of the
\* record it finds is the task token of the submit event.
C14_OneTokenEverywhere ==
    \A s \in Submits :
        sub[s].pc = "done"
            => LET r == sub[s].response
                   path == Route(r.webhook_url)
               IN  /\ Truthy(r.callback_token)
                   /\ r.webhook_url = <<"https://api.example.com", "webhook", r.callback_token>>
                   /\ sub[s].request.json.webhook = r.webhook_url
                   /\ sub[s].item.callback_token = r.callback_token
                   /\ path = Dict([callback_token |-> r.callback_token])
                   /\ sub[s].item.task_token = sub[s].event.task_token
                   /\ Get(get_item(r.callback_token), "task_token", sub[s].event.task_token)
                          = sub[s].event.task_token
                   /\ \A d \in Deliveries :
                         (Done(d) /\ wh[d].event.pathParameters = path)
                             => Get(wh[d].record, "task_token", sub[s].event.task_token)
                                    = sub[s].event.task_token

C14_Witness ==
    \E s \in Submits, d \in Deliveries :
        /\ s > 1 /\ sub[s].pc = "done"
        /\ Done(d)
        /\ wh[d].event.pathParameters = Route(sub[s].response.webhook_url)
        /\ wh[d].call # EmptyDict
        /\ wh[d].call.taskToken = sub[s].event.task_token

StatusCodes == {200, 400, 404, 410, 500}

\* C15: every webhook invocation that has ended has returned a response with a
\* statusCode among 200, 400, 404, 410 and 500, whatever the event and whichever of
\* its calls to the store and to the engine failed.
C15_AlwaysStructuredResponse ==
    \A d \in Deliveries :
        Done(d) => /\ DOMAIN wh[d].response = {"statusCode", "body"}
                   /\ wh[d].response.statusCode \in StatusCodes

\* one invocation whose get_item raised and one whose update_item raised after
\* the engine had rejected its resume call
C15_Witness ==
    \E d, e \in Deliveries :
        /\ Done(d) /\ wh[d].read = "ClientError"
        /\ Done(e) /\ wh[e].outcome \in {"TaskTimedOut", "InvalidToken"}
        /\ wh[e].writes = 1 /\ wh[e].written = EmptyDict

\* the engine rejected the resume call of d: the task token had expired or was
\* consumed
Rejected(d) == Done(d) /\ wh[d].outcome \in {"TaskTimedOut", "InvalidToken"}

\* the record under the token of d, while the store holds one, is terminal
StoredTerminal(d) ==
    TokenOf(d) \in DOMAIN store => store[TokenOf(d)].status \in {"COMPLETED", "FAILED"}

\* C16 as claimed: whenever the engine rejects the resume call of a webhook
\* invocation, the invocation marks the record terminal and responds 410 (the
\* invocations in which a call failed in transit left aside).
C16_EveryRejectionIs410 ==
    \A d \in Deliveries :
        (Rejected(d) /\ NoTransitFailure(d))
            => /\ wh[d].written.status \in {"COMPLETED", "FAILED"}
               /\ StoredTerminal(d)
               /\ wh[d].response.statusCode = 410

\* C16, amended: whenever the engine rejects the resume call of a webhook
\* invocation and the store update succeeds, the invocation has marked the record
\* terminal, with a completed_at, and the record stays terminal; it responds 410
\* when the rejection is TaskTimedOut and 400 when it is InvalidToken.
C16_RejectionMarksTerminal ==
    \A d \in Deliveries :
        (Rejected(d) /\ wh[d].written # EmptyDict)
            => /\ wh[d].writes = 1
               /\ wh[d].written.status \in {"COMPLETED", "FAILED"}
               /\ "completed_at" \in DOMAIN wh[d].written
               /\ StoredTerminal(d)
               /\ wh[d].response.statusCode =
                      IF wh[d].outcome = "TaskTimedOut" THEN 410 ELSE 400

\* a rejected resume, and a later delivery for the token that found the record
\* terminal
C16_Witness ==
    \E d, e \in Deliveries :
        /\ Rejected(d) /\ wh[d].outcome = "TaskTimedOut" /\ wh[d].written # EmptyDict
        /\ wh[d].call.op = "send_task_failure"
        /\ Done(e) /\ TokenOf(e) = TokenOf(d)
        /\ wh[e].record = wh[d].written
        /\ wh[e].response.statusCode = 200

\* C17: a webhook with status COMPLETED against a PENDING record whose success
\* resume the engine rejects (TaskTimedOut or InvalidToken), and whose store update
\* succeeds, has marked the record COMPLETED and is not answered like a success.
C17_RejectedSuccessIsCompleted ==
    \A d \in Deliveries :
        (Processed(d, {sCOMPLETED}) /\ Rejected(d) /\ wh[d].written # EmptyDict)
            => /\ wh[d].written.status = "COMPLETED"
               /\ wh[d].response.statusCode # 200

\* the webhook invocations whose update_item call took effect on the record of tok
TerminalWrites(tok) ==
    {d \in Deliveries : wh[d].written # EmptyDict /\ TokenOf(d) = tok}

\* C18: for every callback token, at most one update_item call of the webhook
\* handler takes effect on its record (a second one would find the status no
\* longer PENDING).
C18_AtMostOneTerminalWrite ==
    \A tok \in CallbackTokens : Cardinality(TerminalWrites(tok)) <= 1

\* deliveries d and e for one token both read the record as PENDING, the engine
\* accepted the resume call of e and rejected that of d
LostRace(d, e) ==
    /\ d # e
    /\ Done(d) /\ Done(e)
    /\ TokenOf(d) = TokenOf(e)
    /\ wh[d].read = "ok" /\ wh[e].read = "ok"
    /\ RecordStatus(d) = "PENDING" /\ RecordStatus(e) = "PENDING"
    /\ wh[e].outcome = "ok"
    /\ Rejected(d)

\* C19: of two concurrent deliveries for one token that both read the record as
\* PENDING, the one whose resume call the engine rejects because the other consumed
\* the task token is acknowledged with 200, like an already-processed callback.
C19_LostRaceIsAcknowledged ==
    \A d, e \in Deliveries :
        LostRace(d, e) => wh[d].response.statusCode = 200

\* the state of the task a record waits for at the engine
EngineState(record) ==
    IF "task_token" \in DOMAIN record /\ record.task_token \in DOMAIN engine
    THEN engine[record.task_token]
    ELSE "none"

\* C20: a terminal record whose task the engine resumed with success has status
\* COMPLETED, and one whose task the engine resumed with failure has status FAILED.
C20_StatusAgreesWithEngine ==
    \A tok \in DOMAIN store :
        store[tok].status \in {"COMPLETED", "FAILED"}
            => /\ EngineState(store[tok]) = "succeeded" => store[tok].status = "COMPLETED"
               /\ EngineState(store[tok]) = "failed" => store[tok].status = "FAILED"

\* C21: when a webhook invocation whose resume call the engine accepted has
\* returned, the record under its token, while the store holds it, is COMPLETED or
\* FAILED, also when the invocation's update_item call raised.
C21_ResumedImpliesTerminal ==
    \A d \in Deliveries :
        (Done(d) /\ wh[d].outcome = "ok") => StoredTerminal(d)

\* C22: a record comes into the store only by the put_item call of a submit
\* invocation, under the callback token that invocation issued, and none goes out
\* of it by a step of a submit or webhook invocation.
C22_OnlySubmitCreates ==
    [][\A tok \in CallbackTokens :
          /\ (tok \notin DOMAIN store /\ tok \in DOMAIN store')
                 => \E s \in Submits :
                       /\ sub[s].pc = "store" /\ sub'[s].pc = "done"
                       /\ sub[s].callback_token = tok
                       /\ wh' = wh
          /\ (tok \in DOMAIN store /\ tok \notin DOMAIN store')
                 => (sub' = sub /\ wh' = wh)]_vars

\* the attributes of an item that the webhook handler's update sets
MutableFields == {"status", "completed_at", "result"}

\* C23: a step that leaves a record in the store changes none of its attributes
\* other than status, completed_at and result, and removes none of them.
C23_ImmutableFields ==
    [][\A tok \in DOMAIN store \cap DOMAIN store' :
          \A k \in DOMAIN store[tok] \ MutableFields :
              k \in DOMAIN store'[tok] /\ store'[tok][k] = store[tok][k]]_vars

\* an update of the webhook handler took effect on the record a submit created
C23_Witness ==
    \E d \in Deliveries, s \in Submits :
        /\ wh[d].written # EmptyDict
        /\ sub[s].item # EmptyDict
        /\ TokenOf(d) = sub[s].callback_token
        /\ \A k \in DOMAIN sub[s].item \ MutableFields :
              k \in DOMAIN wh[d].written /\ wh[d].written[k] = sub[s].item[k]
        /\ wh[d].written.status # sub[s].item.status

\* the record under tok and the state of task t are the same after the step
SameRecord(tok) ==
    /\ tok \in DOMAIN store <=> tok \in DOMAIN store'
    /\ tok \in DOMAIN store => store'[tok] = store[tok]

SameTask(t) ==
    /\ t \in DOMAIN engine <=> t \in DOMAIN engine'
    /\ t \in DOMAIN engine => engine'[t] = engine[t]

\* C24: a step of a webhook invocation for token A leaves the record of every
\* other token as it is, and its resume call is for the task token of the record
\* it read under A and changes the state of no other task; a step of a submit
\* invocation changes no record that the store already holds.
C24_TokensAreIndependent ==
    [][/\ \A d \in Deliveries :
             wh'[d] # wh[d]
                 => /\ \A tok \in CallbackTokens \ {callback_token_of(wh'[d].event)} :
                          SameRecord(tok)
                    /\ wh'[d].call # EmptyDict
                          => /\ wh'[d].record.callback_token
                                    = callback_token_of(wh'[d].event)
                             /\ wh'[d].call.taskToken = wh'[d].record.task_token
                             /\ \A t \in TaskTokens \ {wh'[d].record.task_token} :
                                   SameTask(t)
       /\ \A s \in Submits :
             sub'[s] # sub[s] => \A tok \in DOMAIN store : SameRecord(tok)]_vars

\* the records of two tokens, one resumed and made terminal by a webhook, the
\* other still as its submit put it
C24_Witness ==
    \E d \in Deliveries, s \in Submits :
        /\ wh[d].outcome = "ok" /\ wh[d].written # EmptyDict
        /\ sub[s].item # EmptyDict
        /\ sub[s].callback_token # TokenOf(d)
        /\ sub[s].callback_token \in DOMAIN store
        /\ store[sub[s].callback_token] = sub[s].item
        /\ TokenOf(d) \in DOMAIN store
        /\ EngineState(sub[s].item) = "open"

\* the webhook invocations for tok that have issued a resume call
Resumers(tok) == {d \in Deliveries : wh[d].call # EmptyDict /\ TokenOf(d) = tok}

\* C25: for every record with status COMPLETED or FAILED a webhook invocation for
\* its token has issued a resume call, with the record's task token, and every
\* webhook invocation that has called update_item issued a resume call before.
C25_ResumeBeforeTerminalWrite ==
    /\ \A tok \in DOMAIN store :
          store[tok].status \in {"COMPLETED", "FAILED"}
              => \E d \in Resumers(tok) :
                    Get(store[tok], "task_token", wh[d].call.taskToken)
                        = wh[d].call.taskToken
    /\ \A d \in Deliveries :
          (wh[d].writes > 0 \/ wh[d].pc = "update") => wh[d].call # EmptyDict

C25_Witness ==
    \E tok \in DOMAIN store :
        /\ store[tok].status = "FAILED"
        /\ "task_token" \in DOMAIN store[tok]
        /\ \E d \in Resumers(tok) : wh[d].call.taskToken = store[tok].task_token

\* the parsed body of the webhook request of invocation d
BodyOf(d) == wh[d].event.body.dict

\* the invocation read a PENDING record, found one of `statuses` in the body and
\* issued its resume call
Called(d, statuses) ==
    /\ wh[d].call # EmptyDict
    /\ RecordStatus(d) = "PENDING"
    /\ StatusOf(d) \in statuses

\* C26: a COMPLETED webhook on a PENDING record passes to the engine the output
\* {job_id: the body's id ("unknown" without one), status: the webhook status,
\* callback_token: the path's token, exec_id and segment_filename: the record's,
\* output: the body's output ({} without one)}, and once the engine accepted and
\* the store was updated the record's result holds that job id and that output.
C26_SuccessOutput ==
    \A d \in Deliveries :
        Called(d, {sCOMPLETED})
            => LET b == BodyOf(d)
                   r == wh[d].record
                   c == wh[d].call
                   id == IF "id" \in DOMAIN b THEN b.id ELSE "unknown"
                   out == IF "output" \in DOMAIN b THEN b.output ELSE EmptyDict
               IN  /\ c.op = "send_task_success"
                   /\ c.output = [job_id |-> id,
                                  status |-> sCOMPLETED,
                                  callback_token |->
                                      wh[d].event.pathParameters.dict.callback_token,
                                  exec_id |-> Get(r, "exec_id", None),
                                  segment_filename |-> Get(r, "segment_filename", None),
                                  output |-> out]
                   /\ Accepted_Stored(d)
                          => /\ "result" \in DOMAIN wh[d].written
                             /\ Get(wh[d].written.result, "job_id", None) = id
                             /\ Get(wh[d].written.result, "output", None) = out

C26_Witness ==
    \E d, e \in Deliveries :
        /\ Called(d, {sCOMPLETED}) /\ Accepted_Stored(d)
        /\ wh[d].call.output.job_id = "j1"
        /\ wh[d].call.output.exec_id = wh[d].record.exec_id
        /\ wh[d].written.result.output = Output1
        /\ Called(e, {sCOMPLETED})
        /\ "output" \notin DOMAIN BodyOf(e)
        /\ wh[e].call.output.output = EmptyDict

sRunPodFAILED == <<"R","u","n","P","o","d","F","A","I","L","E","D">>
sRunPodCANCELLED == <<"R","u","n","P","o","d","C","A","N","C","E","L","L","E","D">>
sRunPodTIMEDOUT == <<"R","u","n","P","o","d","T","I","M","E","D","O","U","T">>

\* C27: a FAILED, CANCELLED or TIMED_OUT webhook on a PENDING record resumes with
\* send_task_failure, error RunPodFAILED, RunPodCANCELLED or RunPodTIMEDOUT and
\* cause the body's error, or "RunPod job <status>" without one; once the engine
\* accepted and the store was updated the record's result holds the same message.
C27_FailureSignal ==
    \A d \in Deliveries :
        Called(d, FailureStatuses)
            => LET b == BodyOf(d)
                   c == wh[d].call
                   msg == IF "error" \in DOMAIN b THEN b.error
                          ELSE sRunPodJob \o b.status
               IN  /\ c.op = "send_task_failure"
                   /\ c.error = CASE b.status = sFAILED -> sRunPodFAILED
                                  [] b.status = sCANCELLED -> sRunPodCANCELLED
                                  [] b.status = sTIMED_OUT -> sRunPodTIMEDOUT
                   /\ c.cause = msg
                   /\ Accepted_Stored(d)
                          => /\ "result" \in DOMAIN wh[d].written
                             /\ Get(wh[d].written.result, "error", None) = msg

C27_Witness ==
    \E d, e \in Deliveries :
        /\ Called(d, {sTIMED_OUT}) /\ Accepted_Stored(d)
        /\ wh[d].call.error = sRunPodTIMEDOUT
        /\ wh[d].written.result.error = sRunPodJob \o sTIMED_OUT
        /\ Called(e, {sFAILED})
        /\ wh[e].call.cause = sGpuOom

\* submission s ended in this step
Ends(s) == sub[s].pc = "idle" /\ sub'[s].pc # "idle"

\* C28: the credential cache, once populated, never changes; a submission that
\* starts with a populated cache makes no credential lookup and sends the cached
\* key; a submission whose lookup fails leaves the cache unpopulated and fails
\* with no POST made and no record written.
C28_CacheWrittenOnce ==
    [][/\ cache # None => cache' = cache
       /\ \A s \in Submits :
             Ends(s)
                 => /\ cache # None
                        => /\ sub'[s].fetched = 0
                           /\ sub'[s].request # EmptyDict
                                  => sub'[s].request.headers.Authorization
                                         = <<"Bearer ", cache>>
                    /\ (sub'[s].fetched = 1 /\ sub'[s].request = EmptyDict)
                        => /\ cache' = None
                           /\ sub'[s].pc = "failed"
                           /\ sub'[s].post = "none"
                           /\ sub'[s].puts = 0
                           /\ store' = store
                    /\ (sub'[s].fetched = 1 /\ sub'[s].request # EmptyDict)
                        => /\ cache' # None
                           /\ sub'[s].request.headers.Authorization
                                  = <<"Bearer ", cache'>>]_vars

C28_Witness ==
    \E s, t \in Submits :
        /\ s < t
        /\ sub[s].fetched = 1 /\ sub[s].request # EmptyDict
        /\ sub[t].fetched = 0 /\ sub[t].pc = "done"
        /\ sub[t].request.headers.Authorization = <<"Bearer ", cache>>
        /\ sub[s].request.headers.Authorization = <<"Bearer ", cache>>


\* C29: a submission that succeeded has POSTed one request: to the endpoint URL of
\* its event, with the header Authorization "Bearer <cached API key>", with the
\* event's input and output presigned URLs under `input`, and with the webhook
\* URL under the key `webhookV2` of the request body.
C29_PostCarriesWebhookV2 ==
    \A s \in Submits :
        sub[s].pc = "done"
            => LET q == sub[s].request
               IN  /\ sub[s].post = "id"
                   /\ q.url = sub[s].event.runpod.run_endpoint
                   /\ q.headers.Authorization = <<"Bearer ", cache>>
                   /\ q.json.input.input_presigned_url
                          = sub[s].event.input_presigned_url
                   /\ q.json.input.output_presigned_url
                          = sub[s].event.output_presigned_url
                   /\ "webhookV2" \in DOMAIN q.json
                   /\ q.json.webhookV2 = sub[s].webhook_url


\* the items submit has written: the item of every submission that stored one and
\* every record of the table that carries the attributes submit writes
SubmitItems ==
    {sub[s].item : s \in {r \in Submits : sub[r].item # EmptyDict}}
        \cup {store[tok] : tok \in {t \in DOMAIN store : "ttl" \in DOMAIN store[t]}}

\* C30: for every record submit has written, expires_at is created_at plus 168
\* hours, that is 604800 seconds; ttl is the whole number of seconds of expires_at
\* (times are counted in 1/UnitsPerSecond s); and ttl, in seconds, is strictly
\* greater than the creation time.
C30_TtlSevenDaysAhead ==
    \A item \in SubmitItems :
        /\ item.expires_at = item.created_at + 604800 * UnitsPerSecond
        /\ item.ttl \in Nat
        /\ item.ttl * UnitsPerSecond <= item.expires_at
        /\ item.expires_at < (item.ttl + 1) * UnitsPerSecond
        /\ item.ttl * UnitsPerSecond > item.created_at

C30_Witness ==
    \E s \in Submits :
        /\ sub[s].pc = "done"
        /\ sub[s].item \in SubmitItems
        /\ sub[s].item.created_at % UnitsPerSecond # 0
        /\ sub[s].item.ttl = 604800
        /\ \E t \in Submits : sub[t].pc = "done" /\ sub[t].item.ttl = 604801

====
